---- MODULE Spec2Model ----
(***************************************************************************)
(* Model of x/wasm/client/cli/query.go: the query subcommands of the wasm  *)
(* module and the argumentDecoder they use.                                *)
(*                                                                         *)
(* A Go string and a Go []byte are both modelled as a sequence of byte     *)
(* values 0..255.  An error value is a sequence of message parts; the nil  *)
(* error is the empty sequence.                                            *)
(***************************************************************************)
EXTENDS Integers, Sequences, FiniteSets, TLC

\* ---------------------------------------------------------------- bounds

\* longest free-form argument string drawn from Alphabet
MaxStrLen == 2
\* longest byte sequence whose hex / base64 encoding is offered as argument
MaxBytes == 2

\* characters of free-form arguments: '\n' '1' '3' '=' 'M' 'Q' 'g' '{' '}'
Alphabet == {10, 49, 51, 61, 77, 81, 103, 123, 125}
\* bytes of the encoded payloads: NUL '1' '{' '}' 0xff
Bytes == {0, 49, 123, 125, 255}

RECURSIVE SeqsUpTo(_, _)
SeqsUpTo(S, n) ==
    IF n = 0 THEN {<<>>}
    ELSE LET shorter == SeqsUpTo(S, n - 1)
         IN  shorter \cup {Append(s, c) : s \in shorter, c \in S}

nil == <<>>

\* ------------------------------------------------- encoding/hex (stdlib)

ErrLength == <<"encoding/hex: odd length hex string">>
InvalidByteError == <<"encoding/hex: invalid byte">>

\* reverseHexTable: 255 marks a byte that is no hex digit
fromHexChar(c) ==
    IF c >= 48 /\ c <= 57 THEN c - 48
    ELSE IF c >= 97 /\ c <= 102 THEN c - 87
    ELSE IF c >= 65 /\ c <= 70 THEN c - 55
    ELSE 255

\* hex.Decode: j is the (1-based) index of the second digit of the pair
RECURSIVE hexDecodeLoop(_, _, _)
hexDecodeLoop(src, j, dst) ==
    IF j <= Len(src)
    THEN LET a == fromHexChar(src[j - 1])
             b == fromHexChar(src[j])
         IN  IF a > 15 \/ b > 15
             THEN [bytes |-> dst, err |-> InvalidByteError]
             ELSE hexDecodeLoop(src, j + 2, Append(dst, a * 16 + b))
    ELSE IF Len(src) % 2 = 1
         THEN IF fromHexChar(src[j - 1]) > 15
              THEN [bytes |-> dst, err |-> InvalidByteError]
              ELSE [bytes |-> dst, err |-> ErrLength]
         ELSE [bytes |-> dst, err |-> nil]

\* hex.DecodeString: the bytes decoded before the error come with the error
hexDecodeString(s) == hexDecodeLoop(s, 2, <<>>)

hexDigit(n) == IF n < 10 THEN 48 + n ELSE 87 + n

\* hex.EncodeToString (lower case)
RECURSIVE hexEncodeToString(_)
hexEncodeToString(b) ==
    IF b = <<>> THEN <<>>
    ELSE <<hexDigit(Head(b) \div 16), hexDigit(Head(b) % 16)>>
         \o hexEncodeToString(Tail(b))

\* ------------------------------------ encoding/base64 StdEncoding (stdlib)

CorruptInputError == <<"illegal base64 data">>

\* decodeMap of the standard alphabet: 255 marks a byte outside it
b64DecodeMap(c) ==
    IF c >= 65 /\ c <= 90 THEN c - 65
    ELSE IF c >= 97 /\ c <= 122 THEN c - 71
    ELSE IF c >= 48 /\ c <= 57 THEN c + 4
    ELSE IF c = 43 THEN 62
    ELSE IF c = 47 THEN 63
    ELSE 255

b64EncodeMap(n) ==
    IF n < 26 THEN 65 + n
    ELSE IF n < 52 THEN 71 + n
    ELSE IF n < 62 THEN n - 4
    ELSE IF n = 62 THEN 43
    ELSE 47

isNewline(c) == c = 10 \/ c = 13

\* index of the first byte at or after si that is no '\r' or '\n'
RECURSIVE skipNewlines(_, _)
skipNewlines(src, si) ==
    IF si <= Len(src) /\ isNewline(src[si]) THEN skipNewlines(src, si + 1) ELSE si

\* the bytes of one quantum: dlen sextets give dlen - 1 bytes
quantumBytes(dbuf, dlen) ==
    LET d(i) == IF i <= Len(dbuf) THEN dbuf[i] ELSE 0
        val == d(1) * 262144 + d(2) * 4096 + d(3) * 64 + d(4)
        all == <<val \div 65536, (val \div 256) % 256, val % 256>>
    IN  SubSeq(all, 1, dlen - 1)

\* Encoding.decodeQuantum: si is the (1-based) index of the next input byte,
\* dbuf the sextets read so far.  Result: the next index, the bytes decoded
\* and the error.
RECURSIVE decodeQuantum(_, _, _)
decodeQuantum(src, si, dbuf) ==
    LET j == Len(dbuf)
        corrupt == [si |-> si, bytes |-> <<>>, err |-> CorruptInputError]
    IN  IF j = 4 THEN [si |-> si, bytes |-> quantumBytes(dbuf, 4), err |-> nil]
        ELSE IF si > Len(src)
        THEN IF j = 0 THEN [si |-> si, bytes |-> <<>>, err |-> nil] ELSE corrupt
        ELSE LET in == src[si]
             IN  IF b64DecodeMap(in) # 255
                 THEN decodeQuantum(src, si + 1, Append(dbuf, b64DecodeMap(in)))
                 ELSE IF isNewline(in) THEN decodeQuantum(src, si + 1, dbuf)
                 ELSE IF in # 61 THEN corrupt
                 ELSE IF j < 2 THEN corrupt
                 ELSE LET s2 == IF j = 2 THEN skipNewlines(src, si + 1) ELSE si
                          padOK == j = 3 \/ (s2 <= Len(src) /\ src[s2] = 61)
                          s3 == skipNewlines(src, s2 + 1)
                      IN  IF ~padOK THEN corrupt
                          ELSE [si |-> s3,
                                bytes |-> quantumBytes(dbuf, j),
                                err |-> IF s3 <= Len(src)
                                        THEN CorruptInputError ELSE nil]

\* Encoding.Decode: quantum after quantum, stopping at the first error with
\* the bytes decoded so far
RECURSIVE b64DecodeLoop(_, _, _)
b64DecodeLoop(src, si, dst) ==
    IF si > Len(src) THEN [bytes |-> dst, err |-> nil]
    ELSE LET q == decodeQuantum(src, si, <<>>)
         IN  IF q.err # nil
             THEN [bytes |-> dst \o q.bytes, err |-> q.err]
             ELSE b64DecodeLoop(src, q.si, dst \o q.bytes)

\* base64.StdEncoding.DecodeString
b64DecodeString(s) == b64DecodeLoop(s, 1, <<>>)

\* base64.StdEncoding.EncodeToString (padded)
RECURSIVE b64EncodeToString(_)
b64EncodeToString(b) ==
    IF b = <<>> THEN <<>>
    ELSE LET n == IF Len(b) >= 3 THEN 3 ELSE Len(b)
             x(i) == IF i <= n THEN b[i] ELSE 0
             val == x(1) * 65536 + x(2) * 256 + x(3)
             c1 == b64EncodeMap(val \div 262144)
             c2 == b64EncodeMap((val \div 4096) % 64)
             c3 == IF n >= 2 THEN b64EncodeMap((val \div 64) % 64) ELSE 61
             c4 == IF n >= 3 THEN b64EncodeMap(val % 64) ELSE 61
         IN  <<c1, c2, c3, c4>> \o b64EncodeToString(SubSeq(b, n + 1, Len(b)))

\* ------------------------------------------- encoding/json Valid (stdlib)

isSpace(c) == c = 32 \/ c = 9 \/ c = 10 \/ c = 13
isDigit(c) == c >= 48 /\ c <= 57

\* Every scan operator takes the (1-based) index where a token starts and
\* gives the index after it, or 0 when the bytes are no such token.
RECURSIVE skipSpace(_, _)
skipSpace(s, i) ==
    IF i <= Len(s) /\ isSpace(s[i]) THEN skipSpace(s, i + 1) ELSE i

RECURSIVE scanDigits(_, _)
scanDigits(s, i) ==
    IF i <= Len(s) /\ isDigit(s[i]) THEN scanDigits(s, i + 1) ELSE i

\* at least one digit from i on
scanDigits1(s, i) ==
    IF i <= Len(s) /\ isDigit(s[i]) THEN scanDigits(s, i + 1) ELSE 0

scanExp(s, i) ==
    IF i <= Len(s) /\ (s[i] = 101 \/ s[i] = 69)
    THEN IF i + 1 <= Len(s) /\ (s[i + 1] = 43 \/ s[i + 1] = 45)
         THEN scanDigits1(s, i + 2)
         ELSE scanDigits1(s, i + 1)
    ELSE i

scanFrac(s, i) ==
    IF i <= Len(s) /\ s[i] = 46
    THEN LET k == scanDigits1(s, i + 1) IN IF k = 0 THEN 0 ELSE scanExp(s, k)
    ELSE scanExp(s, i)

\* the integer part: 0, or a non-zero digit and more digits
scanInt(s, i) ==
    IF i > Len(s) \/ ~isDigit(s[i]) THEN 0
    ELSE IF s[i] = 48 THEN scanFrac(s, i + 1)
    ELSE scanFrac(s, scanDigits(s, i + 1))

scanNumber(s, i) ==
    IF s[i] = 45 THEN scanInt(s, i + 1) ELSE scanInt(s, i)

scanLiteral(s, i, lit) ==
    IF i + Len(lit) - 1 <= Len(s) /\ SubSeq(s, i, i + Len(lit) - 1) = lit
    THEN i + Len(lit) ELSE 0

\* the rest of a string, i being the index after the opening quote
RECURSIVE scanString(_, _)
scanString(s, i) ==
    IF i > Len(s) THEN 0
    ELSE IF s[i] = 34 THEN i + 1
    ELSE IF s[i] < 32 THEN 0
    ELSE IF s[i] # 92 THEN scanString(s, i + 1)
    ELSE IF i + 1 > Len(s) THEN 0
    ELSE IF s[i + 1] \in {98, 102, 110, 114, 116, 92, 47, 34}
         THEN scanString(s, i + 2)
    ELSE IF s[i + 1] = 117 /\ i + 5 <= Len(s)
            /\ \A k \in (i + 2)..(i + 5) : fromHexChar(s[k]) <= 15
         THEN scanString(s, i + 6)
    ELSE 0

RECURSIVE scanValue(_, _), scanElements(_, _), scanMembers(_, _)
\* a value, leading space skipped
scanValue(s, i0) ==
    LET i == skipSpace(s, i0)
    IN  IF i > Len(s) THEN 0
        ELSE IF s[i] = 123
             THEN LET k == skipSpace(s, i + 1)
                  IN  IF k <= Len(s) /\ s[k] = 125 THEN k + 1
                      ELSE scanMembers(s, k)
        ELSE IF s[i] = 91
             THEN LET k == skipSpace(s, i + 1)
                  IN  IF k <= Len(s) /\ s[k] = 93 THEN k + 1
                      ELSE scanElements(s, k)
        ELSE IF s[i] = 34 THEN scanString(s, i + 1)
        ELSE IF s[i] = 45 \/ isDigit(s[i]) THEN scanNumber(s, i)
        ELSE IF s[i] = 116 THEN scanLiteral(s, i, <<116, 114, 117, 101>>)
        ELSE IF s[i] = 102 THEN scanLiteral(s, i, <<102, 97, 108, 115, 101>>)
        ELSE IF s[i] = 110 THEN scanLiteral(s, i, <<110, 117, 108, 108>>)
        ELSE 0

\* the elements of an array up to its closing bracket
scanElements(s, i) ==
    LET v == scanValue(s, i)
        k == skipSpace(s, v)
    IN  IF v = 0 \/ k > Len(s) THEN 0
        ELSE IF s[k] = 93 THEN k + 1
        ELSE IF s[k] = 44 THEN scanElements(s, k + 1)
        ELSE 0

\* the members of an object up to its closing brace
scanMembers(s, i0) ==
    LET i == skipSpace(s, i0)
        key == IF i <= Len(s) /\ s[i] = 34 THEN scanString(s, i + 1) ELSE 0
        colon == skipSpace(s, key)
        v == IF key # 0 /\ colon <= Len(s) /\ s[colon] = 58
             THEN scanValue(s, colon + 1) ELSE 0
        k == skipSpace(s, v)
    IN  IF v = 0 \/ k > Len(s) THEN 0
        ELSE IF s[k] = 125 THEN k + 1
        ELSE IF s[k] = 44 THEN scanMembers(s, k + 1)
        ELSE 0

\* json.Valid: one value, space around it, nothing else
jsonValid(data) ==
    LET v == scanValue(data, 1)
    IN  v # 0 /\ skipSpace(data, v) = Len(data) + 1

\* ------------------------------------------------------ argumentDecoder

ErrMultipleFlags == <<"multiple decoding flags used">>

\* asciiDecodeString with the empty string refused
asciiDecodeStringRefusesEmpty(s) ==
    IF s = <<>> THEN [bytes |-> <<>>, err |-> <<"empty input">>]
    ELSE [bytes |-> s, err |-> nil]

\* asciiDecodeString: the bytes of the string, no error
asciiDecodeString(s) == [bytes |-> s, err |-> nil]

\* the default decoder handed to newArgDecoder, by name
applyDec(dec, s) ==
    IF dec = "hex" THEN hexDecodeString(s) ELSE asciiDecodeString(s)

\* newArgDecoder: the default decoder is stored, the three flags are unset
\* until the command line sets them
newArgDecoder(def) == [dec |-> def, asciiF |-> FALSE, hexF |-> FALSE, b64F |-> FALSE]

\* the loop of DecodeString without the check for a second flag: the last
\* flag set wins
RECURSIVE scanFlagsLastWins(_, _, _)
scanFlagsLastWins(fl, i, found) ==
    IF i > Len(fl) THEN found
    ELSE IF ~fl[i] THEN scanFlagsLastWins(fl, i + 1, found)
    ELSE scanFlagsLastWins(fl, i + 1, i - 1)

\* the loop of DecodeString over <<asciiF, hexF, b64F>>: i is the (1-based)
\* position, found the 0-based index of the flag seen so far or -1; the result
\* is -2 when a second flag is met
RECURSIVE scanFlags(_, _, _)
scanFlags(fl, i, found) ==
    IF i > Len(fl) THEN found
    ELSE IF ~fl[i] THEN scanFlags(fl, i + 1, found)
    ELSE IF found # -1 THEN -2
    ELSE scanFlags(fl, i + 1, i - 1)

\* DecodeString with the flags ignored: always the default decoder
DecodeStringDefaultOnly(a, s) ==
    IF scanFlags(<<a.asciiF, a.hexF, a.b64F>>, 1, -1) = -2 THEN [bytes |-> <<>>, err |-> ErrMultipleFlags]
    ELSE applyDec(a.dec, s)

\* DecodeString with the error of the decoder dropped
DecodeStringDropsError(a, s) ==
    LET found == scanFlags(<<a.asciiF, a.hexF, a.b64F>>, 1, -1)
        r == IF found = 0 THEN asciiDecodeString(s)
             ELSE IF found = 1 THEN hexDecodeString(s)
             ELSE IF found = 2 THEN b64DecodeString(s)
             ELSE applyDec(a.dec, s)
    IN  IF found = -2 THEN [bytes |-> <<>>, err |-> ErrMultipleFlags]
        ELSE [bytes |-> r.bytes, err |-> nil]

\* DecodeString with the cases of hex and base64 exchanged
DecodeStringCasesSwapped(a, s) ==
    LET found == scanFlags(<<a.asciiF, a.hexF, a.b64F>>, 1, -1)
    IN  IF found = -2 THEN [bytes |-> <<>>, err |-> ErrMultipleFlags]
        ELSE IF found = 0 THEN asciiDecodeString(s)
        ELSE IF found = 1 THEN b64DecodeString(s)
        ELSE IF found = 2 THEN hexDecodeString(s)
        ELSE applyDec(a.dec, s)

\* DecodeString without the case of base64, which falls to the default
DecodeStringNoB64Case(a, s) ==
    LET found == scanFlags(<<a.asciiF, a.hexF, a.b64F>>, 1, -1)
    IN  IF found = -2 THEN [bytes |-> <<>>, err |-> ErrMultipleFlags]
        ELSE IF found = 0 THEN asciiDecodeString(s)
        ELSE IF found = 1 THEN hexDecodeString(s)
        ELSE applyDec(a.dec, s)

\* argumentDecoder.DecodeString
DecodeString(a, s) ==
    LET found == scanFlags(<<a.asciiF, a.hexF, a.b64F>>, 1, -1)
    IN  IF found = -2 THEN [bytes |-> <<>>, err |-> ErrMultipleFlags]
        ELSE IF found = 0 THEN asciiDecodeString(s)
        ELSE IF found = 1 THEN hexDecodeString(s)
        ELSE IF found = 2 THEN b64DecodeString(s)
        ELSE applyDec(a.dec, s)

\* --------------------------------------------------- other library calls

ErrSyntax == <<"strconv.ParseUint: invalid syntax">>

\* strconv.ParseUint(s, 10, 64).  The arguments of the model are too short to
\* reach 2^64, so the range error cannot arise.
RECURSIVE parseDigits(_, _, _)
parseDigits(s, i, n) ==
    IF i > Len(s) THEN [val |-> n, err |-> nil]
    ELSE IF ~isDigit(s[i]) THEN [val |-> 0, err |-> ErrSyntax]
    ELSE parseDigits(s, i + 1, n * 10 + (s[i] - 48))

ParseUint(s) ==
    IF s = <<>> THEN [val |-> 0, err |-> ErrSyntax] ELSE parseDigits(s, 1, 0)

ErrBech32 == <<"decoding bech32 failed">>

\* the addresses of the model: "w1" stands for a well-formed bech32 account
\* address, "g" and the empty string for malformed ones
GoodAddr == <<119, 49>>
Addrs == {GoodAddr, <<103>>, <<>>}

\* sdk.AccAddressFromBech32, its error only
AccAddressFromBech32(a) == IF a = GoodAddr THEN nil ELSE ErrBech32

\* errors of the calls whose outcome the command line does not decide
ErrContext == <<"client context">>
ErrPageRequest == <<"page request">>
ErrRemote == <<"rpc error">>
ErrPrint == <<"print">>
ErrWriteFile == <<"write file">>
ErrLibwasmvm == <<"libwasmvm">>
ErrBuildAddress == <<"build address">>

\* ---------------------------------------------------------------- state

VARIABLES
    cmd,        \* the subcommand invoked
    args,       \* its positional arguments
    decoder,    \* the command's argumentDecoder (default decoder and flags)
    pageKey,    \* the value of the --page-key flag
    pc,         \* the position in the command's RunE
    err,        \* the local err: the error of the last call
    retErr,     \* the error RunE returned
    outcome,    \* "running", "ok", "error" or "panic"
    codeID,     \* the parsed code id
    queryData,  \* the decoded key or query
    pageReq,    \* the page request read from the flags
    sent,       \* the remote queries issued, in order
    buildReq,   \* the requests handed to keeper.BuildAddressPredictable
    printed     \* what was written to the output, in order

vars == <<cmd, args, decoder, pageKey, pc, err, retErr, outcome, codeID,
          queryData, pageReq, sent, buildReq, printed>>

\* ------------------------------------------------- the command lines

ByteSeqs == SeqsUpTo(Bytes, MaxBytes)

\* an encoding cut short by one character, and one with a character added
Truncated(S) == {SubSeq(s, 1, Len(s) - 1) : s \in S \ {<<>>}}
Extended(S) == {Append(s, c) : s \in S, c \in {49, 61, 103}}

HexArgs == {hexEncodeToString(b) : b \in ByteSeqs}
B64Args == {b64EncodeToString(b) : b \in ByteSeqs}

\* the key and query arguments: short free-form strings, the hex and base64
\* encodings of the byte sequences, and those encodings damaged
DataArgs ==
    SeqsUpTo(Alphabet, MaxStrLen)
        \cup HexArgs \cup Truncated(HexArgs) \cup Extended(HexArgs)
        \cup B64Args \cup Truncated(B64Args) \cup Extended(B64Args)

\* code id arguments over '0' '1' 'g'
CodeIDArgs == SeqsUpTo({48, 49, 103}, MaxStrLen)

\* --page-key values: unset, "MQ==", and "=" (no base64)
PageKeys == {<<>>, <<77, 81, 61, 61>>, <<61>>}

FlagSets == {[newArgDecoder(d) EXCEPT !.asciiF = a, !.hexF = h, !.b64F = b] :
                d \in {"hex"}, a \in BOOLEAN, h \in BOOLEAN, b \in BOOLEAN}

NoDecoder == newArgDecoder("none")

DecoderOf(def) == {[f EXCEPT !.dec = def] : f \in FlagSets}

Paginated == {"list-code", "list-contract-by-code", "all", "contract-history",
              "pinned", "list-contracts-by-creator"}

Commands == {"libwasmvm-version", "build-address", "list-code",
             "list-contract-by-code", "code", "code-info", "contract", "all",
             "raw", "smart", "contract-history", "pinned",
             "list-contracts-by-creator", "params"}

\* the argument lists cobra's Args check lets through, per command
ArgsOf(c) ==
    IF c \in {"libwasmvm-version", "list-code", "pinned", "params"} THEN {<<>>}
    ELSE IF c = "build-address"
         THEN {<<<<49, 51>>, a, s>> : a \in Addrs, s \in SeqsUpTo({49, 103}, MaxStrLen)}
              \cup {<<<<49, 51>>, GoodAddr, <<49, 51>>, i>> : i \in {<<>>, <<123, 125>>}}
    ELSE IF c \in {"list-contract-by-code", "code-info"}
         THEN {<<n>> : n \in CodeIDArgs}
    ELSE IF c = "code" THEN {<<n, <<103>>>> : n \in CodeIDArgs}
    ELSE IF c \in {"raw", "smart"}
         THEN {<<GoodAddr, d>> : d \in DataArgs}
              \cup {<<a, d>> : a \in Addrs, d \in SeqsUpTo(Alphabet, 1)}
    ELSE {<<a>> : a \in Addrs}

\* the decoder each command constructs, with the flags the command line set
DecodersOf(c) ==
    IF c \in {"build-address", "raw"} THEN DecoderOf("hex")
    ELSE IF c = "smart" THEN DecoderOf("ascii")
    ELSE {NoDecoder}

Init ==
    /\ cmd \in Commands
    /\ args \in ArgsOf(cmd)
    /\ decoder \in DecodersOf(cmd)
    /\ pageKey \in (IF cmd \in Paginated THEN PageKeys ELSE {<<>>})
    /\ pc = "start"
    /\ err = nil
    /\ retErr = nil
    /\ outcome = "running"
    /\ codeID = 0
    /\ queryData = <<>>
    /\ pageReq = <<>>
    /\ sent = <<>>
    /\ buildReq = <<>>
    /\ printed = <<>>

\* ------------------------------------------------------ steps of RunE

\* go on to the next statement
Goto(next) == pc' = next /\ outcome' = outcome /\ retErr' = retErr

\* return e
Return(e) == pc' = "done" /\ outcome' = "error" /\ retErr' = e

\* return nil
ReturnNil == pc' = "done" /\ outcome' = "ok" /\ retErr' = nil

\* panic(err.Error()): RunE does not return
Panic == pc' = "done" /\ outcome' = "panic" /\ retErr' = nil

\* a request of the query client; the fields a method does not have stay zero
Request(method, address, id, data, page) ==
    [method |-> method, address |-> address, codeId |-> id,
     queryData |-> data, pagination |-> page]

\* clientCtx, err := client.GetClientQueryContext(cmd); if err != nil { return err }
GetClientQueryContext(c, next) ==
    /\ cmd = c /\ pc = "start"
    /\ \E ok \in BOOLEAN :
          IF ok THEN err' = nil /\ Goto(next)
          ELSE err' = ErrContext /\ Return(ErrContext)
    /\ UNCHANGED <<cmd, args, decoder, pageKey, codeID, queryData, pageReq,
                   sent, buildReq, printed>>

\* codeID, err := strconv.ParseUint(args[0], 10, 64); if err != nil { return err }
ParseCodeID(c, next) ==
    /\ cmd = c /\ pc = "parse"
    /\ LET r == ParseUint(args[1])
       IN  /\ codeID' = r.val
           /\ err' = r.err
           /\ IF r.err # nil THEN Return(r.err) ELSE Goto(next)
    /\ UNCHANGED <<cmd, args, decoder, pageKey, queryData, pageReq, sent,
                   buildReq, printed>>

\* _, err = sdk.AccAddressFromBech32(args[0]); if err != nil { return err }
CheckAddress(c, next) ==
    /\ cmd = c /\ pc = "address"
    /\ LET e == AccAddressFromBech32(args[1])
       IN  /\ err' = e
           /\ IF e # nil THEN Return(e) ELSE Goto(next)
    /\ UNCHANGED <<cmd, args, decoder, pageKey, codeID, queryData, pageReq,
                   sent, buildReq, printed>>

\* pageReq, err := client.ReadPageRequest(withPageKeyDecoded(cmd.Flags()))
\* withPageKeyDecoded panics when the page key is no base64, and else sets the
\* flag to the decoded key; ReadPageRequest then reads the flags.
ReadPageRequest(c, next) ==
    /\ cmd = c /\ pc = "page"
    /\ LET raw == b64DecodeString(pageKey)
       IN  IF raw.err # nil
           THEN /\ err' = raw.err
                /\ Panic
                /\ UNCHANGED <<pageKey, pageReq>>
           ELSE /\ pageKey' = raw.bytes
                /\ \E ok \in BOOLEAN :
                      IF ok THEN err' = nil /\ pageReq' = raw.bytes /\ Goto(next)
                      ELSE /\ err' = ErrPageRequest /\ pageReq' = pageReq
                           /\ Return(ErrPageRequest)
    /\ UNCHANGED <<cmd, args, decoder, codeID, queryData, sent, buildReq, printed>>

\* the query tried once more after a failure
QueryRetried(c, req, next) ==
    /\ cmd = c /\ pc = "query"
    /\ sent' = Append(sent, req)
    /\ \E ok \in BOOLEAN :
          IF ok THEN err' = nil /\ Goto(next)
          ELSE IF sent = <<>> THEN err' = nil /\ Goto("query")
          ELSE err' = ErrRemote /\ Return(ErrRemote)
    /\ UNCHANGED <<cmd, args, decoder, pageKey, codeID, queryData, pageReq,
                   buildReq, printed>>

\* res, err := queryClient.<Method>(ctx, req); if err != nil { return err }
Query(c, req, next) ==
    /\ cmd = c /\ pc = "query"
    /\ sent' = Append(sent, req)
    /\ \E ok \in BOOLEAN :
          IF ok THEN err' = nil /\ Goto(next)
          ELSE err' = ErrRemote /\ Return(ErrRemote)
    /\ UNCHANGED <<cmd, args, decoder, pageKey, codeID, queryData, pageReq,
                   buildReq, printed>>

\* return clientCtx.PrintProto(res)
PrintProto(c) ==
    /\ cmd = c /\ pc = "print"
    /\ \E ok \in BOOLEAN :
          IF ok THEN err' = err /\ printed' = Append(printed, "res") /\ ReturnNil
          ELSE err' = err /\ printed' = printed /\ Return(ErrPrint)
    /\ UNCHANGED <<cmd, args, decoder, pageKey, codeID, queryData, pageReq,
                   sent, buildReq>>

\* queryData, err := decoder.DecodeString(args[1])
Decode(c) ==
    /\ cmd = c /\ pc = "decode"
    /\ \E r \in {DecodeString(decoder, args[2])} :
          queryData' = r.bytes /\ err' = r.err
    /\ Goto("decoded")
    /\ UNCHANGED <<cmd, args, decoder, pageKey, codeID, pageReq, sent,
                   buildReq, printed>>

\* ------------------------------------------------------------ commands

\* GetCmdLibVersion: no client context, no remote query
LibVersion ==
    /\ cmd = "libwasmvm-version" /\ pc = "start"
    /\ \E ok \in BOOLEAN :
          IF ok
          THEN err' = nil /\ printed' = Append(printed, "version") /\ ReturnNil
          ELSE /\ err' = ErrLibwasmvm /\ printed' = printed
               /\ Return(<<"error retrieving libwasmvm version: ">> \o ErrLibwasmvm)
    /\ UNCHANGED <<cmd, args, decoder, pageKey, codeID, queryData, pageReq,
                   sent, buildReq>>

\* GetCmdBuildAddress: the arguments go to keeper.BuildAddressPredictable as
\* they are; the decoder is constructed and its flags registered, and RunE
\* does not call it
BuildAddress ==
    /\ cmd = "build-address" /\ pc = "start"
    /\ buildReq' = Append(buildReq,
            [codeHash |-> args[1], creatorAddress |-> args[2], salt |-> args[3],
             initArgs |-> IF Len(args) = 4 THEN args[4] ELSE <<>>])
    /\ \E ok \in BOOLEAN :
          IF ok
          THEN err' = nil /\ printed' = Append(printed, "address") /\ ReturnNil
          ELSE err' = ErrBuildAddress /\ printed' = printed /\ Return(ErrBuildAddress)
    /\ UNCHANGED <<cmd, args, decoder, pageKey, codeID, queryData, pageReq, sent>>

ListCode ==
    \/ GetClientQueryContext("list-code", "page")
    \/ ReadPageRequest("list-code", "query")
    \/ Query("list-code", Request("Codes", <<>>, 0, <<>>, pageReq), "print")
    \/ PrintProto("list-code")

\* list-contract-by-code without the check for code id 0
CheckCodeIDSkipped ==
    /\ cmd = "list-contract-by-code" /\ pc = "nonzero"
    /\ Goto("page")
    /\ UNCHANGED <<cmd, args, decoder, pageKey, err, codeID, queryData, pageReq,
                   sent, buildReq, printed>>

\* if codeID == 0 { return errors.New("empty code id") }
CheckCodeID ==
    /\ cmd = "list-contract-by-code" /\ pc = "nonzero"
    /\ IF codeID = 0 THEN Return(<<"empty code id">>) ELSE Goto("page")
    /\ UNCHANGED <<cmd, args, decoder, pageKey, err, codeID, queryData, pageReq,
                   sent, buildReq, printed>>

ListContractByCode ==
    \/ GetClientQueryContext("list-contract-by-code", "parse")
    \/ ParseCodeID("list-contract-by-code", "nonzero")
    \/ CheckCodeID
    \/ ReadPageRequest("list-contract-by-code", "query")
    \/ Query("list-contract-by-code",
             Request("ContractsByCode", <<>>, codeID, <<>>, pageReq), "print")
    \/ PrintProto("list-contract-by-code")

\* if len(res.Data) == 0 { return errors.New("contract not found") }
\* fmt.Printf("Downloading wasm code to %s\n", args[1])
\* return os.WriteFile(args[1], res.Data, 0o600)
WriteCode ==
    /\ cmd = "code" /\ pc = "write"
    /\ \E empty \in BOOLEAN, ok \in BOOLEAN :
          IF empty THEN printed' = printed /\ Return(<<"contract not found">>)
          ELSE /\ printed' = Append(printed, "Downloading wasm code")
               /\ IF ok THEN ReturnNil ELSE Return(ErrWriteFile)
    /\ UNCHANGED <<cmd, args, decoder, pageKey, err, codeID, queryData, pageReq,
                   sent, buildReq>>

QueryCode ==
    \/ GetClientQueryContext("code", "parse")
    \/ ParseCodeID("code", "query")
    \/ Query("code", Request("Code", <<>>, codeID, <<>>, <<>>), "write")
    \/ WriteCode

QueryCodeInfo ==
    \/ GetClientQueryContext("code-info", "parse")
    \/ ParseCodeID("code-info", "query")
    \/ Query("code-info", Request("CodeInfo", <<>>, codeID, <<>>, <<>>), "print")
    \/ PrintProto("code-info")

GetContractInfo ==
    \/ GetClientQueryContext("contract", "address")
    \/ CheckAddress("contract", "query")
    \/ Query("contract", Request("ContractInfo", args[1], 0, <<>>, <<>>), "print")
    \/ PrintProto("contract")

GetContractStateAll ==
    \/ GetClientQueryContext("all", "address")
    \/ CheckAddress("all", "page")
    \/ ReadPageRequest("all", "query")
    \/ Query("all", Request("AllContractState", args[1], 0, <<>>, pageReq), "print")
    \/ PrintProto("all")

\* if err != nil { return err }, after DecodeString
RawDecoded ==
    /\ cmd = "raw" /\ pc = "decoded"
    /\ IF err # nil THEN Return(err) ELSE Goto("query")
    /\ UNCHANGED <<cmd, args, decoder, pageKey, err, codeID, queryData, pageReq,
                   sent, buildReq, printed>>

GetContractStateRaw ==
    \/ GetClientQueryContext("raw", "address")
    \/ CheckAddress("raw", "decode")
    \/ Decode("raw")
    \/ RawDecoded
    \/ Query("raw", Request("RawContractState", args[1], 0, queryData, <<>>), "print")
    \/ PrintProto("raw")

\* if args[1] == "" { return errors.New("query data must not be empty") }
SmartNotEmpty ==
    /\ cmd = "smart" /\ pc = "empty"
    /\ IF args[2] = <<>> THEN Return(<<"query data must not be empty">>)
       ELSE Goto("decode")
    /\ UNCHANGED <<cmd, args, decoder, pageKey, err, codeID, queryData, pageReq,
                   sent, buildReq, printed>>

\* smart going on after a failed decode
SmartDecodedSwallows ==
    /\ cmd = "smart" /\ pc = "decoded"
    /\ Goto("json")
    /\ UNCHANGED <<cmd, args, decoder, pageKey, err, codeID, queryData, pageReq,
                   sent, buildReq, printed>>

\* if err != nil { return fmt.Errorf("decode query: %s", err) }
SmartDecoded ==
    /\ cmd = "smart" /\ pc = "decoded"
    /\ IF err # nil THEN Return(<<"decode query: ">> \o err) ELSE Goto("json")
    /\ UNCHANGED <<cmd, args, decoder, pageKey, err, codeID, queryData, pageReq,
                   sent, buildReq, printed>>

\* if !json.Valid(queryData) { return errors.New("query data must be json") }
SmartJSON ==
    /\ cmd = "smart" /\ pc = "json"
    /\ IF ~jsonValid(queryData) THEN Return(<<"query data must be json">>)
       ELSE Goto("query")
    /\ UNCHANGED <<cmd, args, decoder, pageKey, err, codeID, queryData, pageReq,
                   sent, buildReq, printed>>

GetContractStateSmart ==
    \/ GetClientQueryContext("smart", "address")
    \/ CheckAddress("smart", "empty")
    \/ SmartNotEmpty
    \/ Decode("smart")
    \/ SmartDecoded
    \/ SmartJSON
    \/ Query("smart", Request("SmartContractState", args[1], 0, queryData, <<>>),
             "print")
    \/ PrintProto("smart")

GetContractHistory ==
    \/ GetClientQueryContext("contract-history", "address")
    \/ CheckAddress("contract-history", "page")
    \/ ReadPageRequest("contract-history", "query")
    \/ Query("contract-history",
             Request("ContractHistory", args[1], 0, <<>>, pageReq), "print")
    \/ PrintProto("contract-history")

ListPinnedCode ==
    \/ GetClientQueryContext("pinned", "page")
    \/ ReadPageRequest("pinned", "query")
    \/ Query("pinned", Request("PinnedCodes", <<>>, 0, <<>>, pageReq), "print")
    \/ PrintProto("pinned")

ListContractsByCreator ==
    \/ GetClientQueryContext("list-contracts-by-creator", "address")
    \/ CheckAddress("list-contracts-by-creator", "page")
    \/ ReadPageRequest("list-contracts-by-creator", "query")
    \/ Query("list-contracts-by-creator",
             Request("ContractsByCreator", args[1], 0, <<>>, pageReq), "print")
    \/ PrintProto("list-contracts-by-creator")

QueryParams ==
    \/ GetClientQueryContext("params", "query")
    \/ Query("params", Request("Params", <<>>, 0, <<>>, <<>>), "print")
    \/ PrintProto("params")

\* GetQueryCmd: the subcommand named on the command line runs
Next ==
    \/ LibVersion
    \/ BuildAddress
    \/ ListCode
    \/ ListContractByCode
    \/ QueryCode
    \/ QueryCodeInfo
    \/ GetContractInfo
    \/ GetContractStateAll
    \/ GetContractStateRaw
    \/ GetContractStateSmart
    \/ GetContractHistory
    \/ ListPinnedCode
    \/ ListContractsByCreator
    \/ QueryParams

Spec == Init /\ [][Next]_vars

\* ------------------------------------------------------------ properties

\* the state right after queryData, err := decoder.DecodeString(args[1])
Decoded == pc = "decoded"

NFlags ==
    (IF decoder.asciiF THEN 1 ELSE 0) + (IF decoder.hexF THEN 1 ELSE 0)
        + (IF decoder.b64F THEN 1 ELSE 0)

OnlyAscii == decoder.asciiF /\ NFlags = 1
OnlyHex == decoder.hexF /\ NFlags = 1
OnlyB64 == decoder.b64F /\ NFlags = 1

\* hex is the decoder in force: by flag, or as the default of raw
HexInForce == OnlyHex \/ (NFlags = 0 /\ cmd = "raw")

\* ascii is the decoder in force: by flag, or as the default of smart
AsciiInForce == OnlyAscii \/ (NFlags = 0 /\ cmd = "smart")

Result == [bytes |-> queryData, err |-> err]

\* C1: with two or more of the flags ascii, hex, b64 set, DecodeString gives
\* the "multiple decoding flags used" error and no bytes, whatever the input
\* and the default decoder.
C1_AmbiguousFlags ==
    (Decoded /\ NFlags >= 2) => (err = ErrMultipleFlags /\ queryData = <<>>)

\* C1 witness: raw was given the well-formed "31" under --hex and --b64
C1_Witness ==
    /\ Decoded /\ cmd = "raw" /\ args[2] = <<51, 49>>
    /\ decoder.hexF /\ decoder.b64F /\ ~decoder.asciiF
    /\ err = ErrMultipleFlags

\* C2: with exactly one flag set DecodeString gives the result of that flag's
\* decoder, whatever the default; with none set it gives the result, bytes and
\* error, of the default decoder (hex for raw, ascii for smart).
C2_SelectedDecoder ==
    Decoded =>
        /\ OnlyAscii => Result = asciiDecodeString(args[2])
        /\ OnlyHex => Result = hexDecodeString(args[2])
        /\ OnlyB64 => Result = b64DecodeString(args[2])
        /\ (NFlags = 0 /\ cmd = "raw") => Result = hexDecodeString(args[2])
        /\ (NFlags = 0 /\ cmd = "smart") => Result = asciiDecodeString(args[2])

\* C2 witness: raw, whose default is hex, decoded "MQ==" as base64
C2_Witness ==
    /\ Decoded /\ cmd = "raw" /\ OnlyB64
    /\ args[2] = <<77, 81, 61, 61>> /\ queryData = <<49>> /\ err = nil

\* a string hex.DecodeString must reject: odd length, or a byte that is no
\* hex digit
MalformedHex(s) == Len(s) % 2 = 1 \/ \E k \in 1..Len(s) : fromHexChar(s[k]) = 255

RECURSIVE dropNewlines(_)
dropNewlines(s) ==
    IF s = <<>> THEN <<>>
    ELSE IF isNewline(Head(s)) THEN dropNewlines(Tail(s))
    ELSE <<Head(s)>> \o dropNewlines(Tail(s))

\* a string base64.StdEncoding must reject: with the line breaks dropped, its
\* length is no multiple of 4, or a byte is outside the alphabet, or padding
\* stands anywhere but in the last one or two places
MalformedB64(s) ==
    LET t == dropNewlines(s)
        n == Len(t)
    IN  \/ n % 4 # 0
        \/ \E k \in 1..n :
              /\ b64DecodeMap(t[k]) = 255
              /\ ~(t[k] = 61 /\ (k = n \/ (k = n - 1 /\ t[n] = 61)))

\* C3 as claimed: under hex or base64 the bytes returned with an error are
\* empty.
C3_NoPartialResult ==
    (Decoded /\ (HexInForce \/ OnlyB64) /\ err # nil) => queryData = <<>>

\* C3 amended: under hex or base64 a malformed input gives a decode error,
\* never a nil error; the bytes that come with the error are the decoding of a
\* prefix of the input (they may be non-empty), and no query carrying them is
\* sent.
C3_MalformedFails ==
    /\ (Decoded /\ HexInForce /\ MalformedHex(args[2]))
            => err \in {ErrLength, InvalidByteError}
    /\ (Decoded /\ OnlyB64 /\ MalformedB64(args[2])) => err = CorruptInputError
    /\ (Decoded /\ HexInForce /\ err # nil)
            => \E k \in 0..Len(args[2]) :
                  hexDecodeString(SubSeq(args[2], 1, k)) = [bytes |-> queryData, err |-> nil]
    /\ (Decoded /\ OnlyB64 /\ err # nil)
            => \E k \in 0..Len(args[2]) :
                  b64DecodeString(SubSeq(args[2], 1, k)) = [bytes |-> queryData, err |-> nil]
    /\ (cmd \in {"raw", "smart"} /\ sent # <<>>)
            => /\ HexInForce => ~MalformedHex(args[2])
               /\ OnlyB64 => ~MalformedB64(args[2])

\* C3 witness: the odd-length "313" under the hex flag came back as the byte
\* 0x31 together with the length error
C3_Witness ==
    /\ Decoded /\ OnlyHex /\ args[2] = <<51, 49, 51>>
    /\ err = ErrLength /\ queryData = <<49>>

\* C4: under the ascii flag alone, or with ascii as the default and no flag,
\* DecodeString gives the bytes of the string unchanged and a nil error, for
\* every input, the empty string included.
C4_AsciiIdentity ==
    (Decoded /\ AsciiInForce) => (queryData = args[2] /\ err = nil)

\* C4 witness: raw --ascii decoded the empty string
C4_Witness ==
    /\ Decoded /\ cmd = "raw" /\ OnlyAscii /\ args[2] = <<>>
    /\ queryData = <<>> /\ err = nil

\* C5: under the hex flag alone, the hexadecimal encoding of any byte
\* sequence B decodes to exactly B with no error.
C5_HexRoundTrip ==
    \A B \in ByteSeqs :
        (Decoded /\ OnlyHex /\ args[2] = hexEncodeToString(B))
            => (queryData = B /\ err = nil)

\* C5 witness: smart --hex decoded "00ff" to the bytes 0, 255
C5_Witness ==
    /\ Decoded /\ cmd = "smart" /\ OnlyHex
    /\ args[2] = <<48, 48, 102, 102>> /\ queryData = <<0, 255>>

\* C6: under the b64 flag alone, the padded standard base64 encoding of any
\* byte sequence B decodes to exactly B with no error.
C6_Base64RoundTrip ==
    \A B \in ByteSeqs :
        (Decoded /\ OnlyB64 /\ args[2] = b64EncodeToString(B))
            => (queryData = B /\ err = nil)

\* C6 witness: raw --b64 decoded "/zE=" to the bytes 255, 49
C6_Witness ==
    /\ Decoded /\ cmd = "raw" /\ OnlyB64
    /\ args[2] = <<47, 122, 69, 61>> /\ queryData = <<255, 49>>

\* the greatest number of steps RunE can still take from a position
StepsLeft ==
    CASE pc = "start" -> 8
      [] pc \in {"address", "parse"} -> 7
      [] pc \in {"empty", "nonzero"} -> 6
      [] pc = "decode" -> 5
      [] pc = "decoded" -> 4
      [] pc \in {"json", "page"} -> 3
      [] pc = "query" -> 2
      [] pc \in {"print", "write"} -> 1
      [] pc = "done" -> 0

\* C7: every invocation issues at most one remote query and then ends, in
\* success or failure; none issues a second query or loops.  At most one query
\* is ever sent, every step brings RunE strictly nearer to its end, and RunE
\* is never stuck before its end.
C7_OneQueryThenDone ==
    /\ [](Len(sent) <= 1)
    /\ [][StepsLeft' < StepsLeft]_vars
    /\ [](pc = "done" \/ ENABLED Next)

\* C7 witness: a command ended in success with its one query issued
C7_Witness == pc = "done" /\ outcome = "ok" /\ Len(sent) = 1 /\ cmd = "smart"

\* the errors of DecodeString
DecodeErrors == {ErrMultipleFlags, ErrLength, InvalidByteError, CorruptInputError}

\* the errors a command makes itself and returns at once
OwnErrors == {<<"empty code id">>, <<"contract not found">>,
              <<"query data must not be empty">>, <<"query data must be json">>}

\* C8 as claimed: a command ends in success with output printed, or in a
\* returned error that is the error of the failed call itself, with nothing
\* printed; it never panics.
C8_Verbatim ==
    pc = "done" =>
        \/ outcome = "ok" /\ err = nil /\ printed # <<>>
        \/ /\ outcome = "error" /\ printed = <<>>
           /\ err # nil => retErr = err

\* C8 amended: no failure is swallowed, and a command ends in one of three
\* ways.  Success, with its one output printed.  A returned error: the error
\* of the failed call itself, except that libwasmvm-version and the decode
\* step of smart return it inside a new message; nothing was printed, except
\* the "Downloading" line of code when writing the file failed.  Or a panic,
\* in withPageKeyDecoded, when the page key is no base64.
C8_Outcomes ==
    /\ pc \notin {"done", "decoded"} => err = nil
    /\ pc = "done" =>
        \/ outcome = "ok" /\ err = nil /\ retErr = nil /\ Len(printed) = 1
        \/ /\ outcome = "error" /\ retErr # nil
           /\ \/ err = nil /\ retErr \in OwnErrors \cup {ErrPrint, ErrWriteFile}
              \/ /\ err # nil
                 /\ retErr =
                      IF cmd = "libwasmvm-version"
                      THEN <<"error retrieving libwasmvm version: ">> \o err
                      ELSE IF cmd = "smart" /\ err \in DecodeErrors
                      THEN <<"decode query: ">> \o err
                      ELSE err
           /\ \/ printed = <<>>
              \/ /\ cmd = "code" /\ retErr = ErrWriteFile
                 /\ printed = <<"Downloading wasm code">>
        \/ /\ outcome = "panic" /\ cmd \in Paginated /\ retErr = nil
           /\ err = CorruptInputError /\ b64DecodeString(pageKey).err # nil
           /\ printed = <<>> /\ sent = <<>>

\* C8 witness: smart ended on a decode failure, returned inside a new message
C8_Witness ==
    /\ pc = "done" /\ cmd = "smart" /\ outcome = "error"
    /\ err = ErrLength /\ retErr = <<"decode query: ">> \o ErrLength

\* what DecodeString is to give for the command line, by the flags and the
\* command's default
Expected ==
    IF NFlags >= 2 THEN [bytes |-> <<>>, err |-> ErrMultipleFlags]
    ELSE IF HexInForce THEN hexDecodeString(args[2])
    ELSE IF OnlyB64 THEN b64DecodeString(args[2])
    ELSE asciiDecodeString(args[2])

AllDigits(s) == s # <<>> /\ \A k \in 1..Len(s) : isDigit(s[k])
NonZero(s) == \E k \in 1..Len(s) : s[k] # 48

\* the argument checks of the command pass for the command line
ArgsValid ==
    IF cmd \in {"contract", "all", "contract-history", "list-contracts-by-creator"}
    THEN args[1] = GoodAddr
    ELSE IF cmd \in {"code", "code-info"} THEN AllDigits(args[1])
    ELSE IF cmd = "list-contract-by-code" THEN AllDigits(args[1]) /\ NonZero(args[1])
    ELSE IF cmd = "raw" THEN args[1] = GoodAddr /\ Expected.err = nil
    ELSE IF cmd = "smart"
         THEN /\ args[1] = GoodAddr /\ args[2] # <<>>
              /\ Expected.err = nil /\ jsonValid(Expected.bytes)
    ELSE TRUE

RECURSIVE Value(_)
Value(s) == IF s = <<>> THEN 0 ELSE 10 * Value(SubSeq(s, 1, Len(s) - 1)) + (s[Len(s)] - 48)

\* the request carries the checked and decoded values of the command line
Carries(req) ==
    /\ cmd \in {"contract", "all", "contract-history", "list-contracts-by-creator",
                "raw", "smart"} => req.address = args[1]
    /\ cmd \in {"code", "code-info", "list-contract-by-code"}
            => req.codeId = Value(args[1])
    /\ cmd \in {"raw", "smart"} => req.queryData = Expected.bytes

\* C9: the argument checks come before the remote query.  A command line that
\* fails a check ends in a returned error with no query issued and nothing
\* printed; a query that is issued carries the checked and decoded values.
C9_ValidateBeforeQuery ==
    /\ (sent # <<>> \/ printed # <<>>) => ArgsValid
    /\ (pc = "done" /\ ~ArgsValid) => outcome = "error" /\ retErr # nil
    /\ \A k \in 1..Len(sent) : Carries(sent[k])

\* C9 witness: smart --hex ended on "ff", which decodes and is no JSON, with
\* no query issued
C9_Witness ==
    /\ pc = "done" /\ cmd = "smart" /\ OnlyHex /\ args[2] = <<102, 102>>
    /\ retErr = <<"query data must be json">> /\ sent = <<>> /\ printed = <<>>

\* C10 as claimed: in build-address the flags --ascii, --hex, --b64 decide how
\* the salt is decoded (hex without a flag) before the address is derived, and
\* more than one flag makes the command fail with the
\* "multiple decoding flags used" error.
C10_SaltFlags ==
    (cmd = "build-address" /\ pc = "done") =>
        /\ NFlags >= 2 => (outcome = "error" /\ retErr = ErrMultipleFlags
                           /\ buildReq = <<>>)
        /\ buildReq # <<>> =>
              (IF OnlyAscii THEN asciiDecodeString(args[3])
               ELSE IF OnlyB64 THEN b64DecodeString(args[3])
               ELSE hexDecodeString(args[3])).err = nil

====
